---- MODULE Spec2Model ----
(***************************************************************************)
(* Model of the OPC-UA / MQTT ingestion application                        *)
(* (source/ingest_app_opc_mqtt/app.py).                                    *)
(*                                                                         *)
(* Text that flows into a document path (topic, writer name, property id)  *)
(* is a sequence of one-character strings, so that sanitize_name can be    *)
(* computed character by character as the regular expressions do.  JSON    *)
(* field names, attribute keys and attribute values are TLA+ strings.      *)
(***************************************************************************)
EXTENDS Integers, Sequences, FiniteSets, TLC

(***************************************************************************)
(* Characters                                                              *)
(***************************************************************************)
LowerSeq == <<"a","b","c","d","e","f","g","h","i","j","k","l","m",
              "n","o","p","q","r","s","t","u","v","w","x","y","z">>

UpperSeq == <<"A","B","C","D","E","F","G","H","I","J","K","L","M",
              "N","O","P","Q","R","S","T","U","V","W","X","Y","Z">>

LowerCase == {LowerSeq[i] : i \in 1..Len(LowerSeq)}

UpperCase == {UpperSeq[i] : i \in 1..Len(UpperSeq)}

Digits == {"0","1","2","3","4","5","6","7","8","9"}

\* str.strip() with no argument removes whitespace
Whitespace == {" ", "\t", "\n", "\r"}

\* the characters the first re.sub keeps: [a-zA-Z0-9/_-]
KeptChars == LowerCase \cup UpperCase \cup Digits \cup {"/", "_", "-"}

\* str.lower() on one character
LowerChar(c) ==
    IF c \in UpperCase
    THEN LowerSeq[CHOOSE i \in 1..Len(UpperSeq) : UpperSeq[i] = c]
    ELSE c

\* str.lower()
Lower(s) == [i \in 1..Len(s) |-> LowerChar(s[i])]

\* str.replace(old, new) for a single character old and a single character new
ReplaceChar(s, old, new) == [i \in 1..Len(s) |-> IF s[i] = old THEN new ELSE s[i]]

RECURSIVE LStrip(_, _)
LStrip(s, chars) ==
    IF s # <<>> /\ Head(s) \in chars THEN LStrip(Tail(s), chars) ELSE s

RECURSIVE RStrip(_, _)
RStrip(s, chars) ==
    IF s # <<>> /\ s[Len(s)] \in chars
    THEN RStrip(SubSeq(s, 1, Len(s) - 1), chars)
    ELSE s

\* str.strip(chars)
Strip(s, chars) == RStrip(LStrip(s, chars), chars)

\* s.split(sep)[-1] for a single character sep: the text after the last sep
RECURSIVE AfterLast(_, _)
AfterLast(s, sep) ==
    IF \E i \in 1..Len(s) : s[i] = sep
    THEN AfterLast(SubSeq(s, (CHOOSE i \in 1..Len(s) : s[i] = sep) + 1, Len(s)), sep)
    ELSE s

(***************************************************************************)
(* sanitize_name, one definition per statement                             *)
(***************************************************************************)
\* re.sub(r'[^a-zA-Z0-9/_-]', '_', name.strip().strip('/')).replace('-', '_')
SanReplace(name) ==
    LET stripped == Strip(Strip(name, Whitespace), {"/"})
        subbed   == [i \in 1..Len(stripped) |->
                        IF stripped[i] \in KeptChars THEN stripped[i] ELSE "_"]
    IN  ReplaceChar(subbed, "-", "_")

\* re.sub(r'/(\d)', r'/_\1', s): an underscore goes between a slash and a digit
RECURSIVE SanDigits(_)
SanDigits(s) ==
    IF s = <<>> THEN <<>>
    ELSE IF Len(s) >= 2 /\ s[1] = "/" /\ s[2] \in Digits
         THEN <<"/", "_", s[2]>> \o SanDigits(SubSeq(s, 3, Len(s)))
         ELSE <<s[1]>> \o SanDigits(Tail(s))

\* re.sub(r'/(_)+', '/', s): the underscores that directly follow a slash go
RECURSIVE SanEmptyLevels(_)
SanEmptyLevels(s) ==
    IF s = <<>> THEN <<>>
    ELSE IF s[1] = "/"
         THEN <<"/">> \o SanEmptyLevels(LStrip(Tail(s), {"_"}))
         ELSE <<s[1]>> \o SanEmptyLevels(Tail(s))

\* s.replace("//", "/"): one left-to-right pass over non-overlapping matches
RECURSIVE SanDoubleSlash(_)
SanDoubleSlash(s) ==
    IF s = <<>> THEN <<>>
    ELSE IF Len(s) >= 2 /\ s[1] = "/" /\ s[2] = "/"
         THEN <<"/">> \o SanDoubleSlash(SubSeq(s, 3, Len(s)))
         ELSE <<s[1]>> \o SanDoubleSlash(Tail(s))

\* the value of sanitized_name when line 51 tests it
SanBody(name) == SanDoubleSlash(SanEmptyLevels(SanDigits(SanReplace(name))))

\* line 51-52: raise ValueError("Invalid name: ...")
SanRaises(name) == SanBody(name) = <<>>

\* line 55: the returned name (meaningful when SanRaises is false)
sanitize_name(name) == Lower(SanBody(name))

\* The pattern of a sanitized path: segments separated by single slashes,
\* each segment a lower-case letter or underscore followed by lower-case
\* letters, digits and underscores.
SegHead == LowerCase \cup {"_"}

SegTail == LowerCase \cup Digits \cup {"_"}

MatchesPathPattern(s) ==
    /\ s # <<>>
    /\ s[1] \in SegHead
    /\ \A i \in 1..Len(s) :
          \/ s[i] \in SegTail
          \/ s[i] = "/" /\ i < Len(s) /\ s[i + 1] \in SegHead

(***************************************************************************)
(* Decoded JSON values.  A Python dict keeps the order of the JSON text,   *)
(* so an object is the sequence of its <<key, value>> pairs.               *)
(***************************************************************************)
JObj(items) == [t |-> "obj", items |-> items]

JArr(items) == [t |-> "arr", items |-> items]

JStr(s) == [t |-> "str", s |-> s]

JNum(n) == [t |-> "num", n |-> n]

JNull == [t |-> "null"]

\* Python truth value of a decoded payload (line 148: if not payload)
Truthy(v) ==
    CASE v.t = "obj"  -> v.items # <<>>
      [] v.t = "arr"  -> v.items # <<>>
      [] v.t = "str"  -> Len(v.s) > 0
      [] v.t = "num"  -> v.n # 0
      [] v.t = "null" -> FALSE

\* key in dict
HasKey(obj, k) == \E i \in 1..Len(obj.items) : obj.items[i][1] = k

\* dict[key]
Item(obj, k) == obj.items[CHOOSE i \in 1..Len(obj.items) : obj.items[i][1] = k][2]

\* str(value) of a decoded scalar (line 183)
StrOf(v) ==
    CASE v.t = "str"  -> v.s
      [] v.t = "num"  -> ToString(v.n)
      [] v.t = "null" -> "None"

(***************************************************************************)
(* A raw MQTT message: its bytes either are not UTF-8, or are text that    *)
(* is not JSON, or are the JSON text of a value.                           *)
(***************************************************************************)
BadBytes == [utf8 |-> FALSE]

BadText == [utf8 |-> TRUE, json |-> FALSE]

JsonText(v) == [utf8 |-> TRUE, json |-> TRUE, value |-> v]

\* line 196: msg.payload.decode() raises UnicodeDecodeError
DecodeRaises(raw) == ~raw.utf8

\* line 141: json.loads(msg_content) raises
JsonLoadsRaises(raw) == ~raw.json

(***************************************************************************)
(* The stage: a function from prim path to the prim, a prim being its type *)
(* name and its attributes (attribute key -> text).  A call the store      *)
(* refuses is the failAt of ApplyProperties below.                         *)
(***************************************************************************)
EmptyStage == [p \in {} |-> 0]

\* line 60-61: the path is made absolute
AbsPath(path) == IF path # <<>> /\ path[1] = "/" THEN path ELSE <<"/">> \o path

\* a prim defined anew at every call
ensure_prim_defined(stage, path, prim_type) ==
    [p \in DOMAIN stage \cup {AbsPath(path)} |->
        IF p = AbsPath(path)
        THEN [type |-> prim_type, attrs |-> [k \in {} |-> ""]]
        ELSE stage[p]]

\* line 64-68 of ensure_prim_exists: the prim at the path, defined when absent
ensure_prim_exists(stage, path, prim_type) ==
    IF AbsPath(path) \in DOMAIN stage
    THEN stage
    ELSE (AbsPath(path) :> [type |-> prim_type, attrs |-> [k \in {} |-> ""]]) @@ stage

\* the store calls ensure_prim_exists makes that change the stage (DefinePrim)
EnsureWrites(stage, path) == IF AbsPath(path) \in DOMAIN stage THEN 0 ELSE 1

\* a Set that adds to the value already there
AttrSetAppending(attrs, key, text) ==
    (key :> (IF key \in DOMAIN attrs THEN attrs[key] \o text ELSE text)) @@ attrs

\* line 183: item_attr.Set(text) gives the attribute the text as its value
AttrSet(attrs, key, text) == (key :> text) @@ attrs

\* line 177-183: get or create the attribute, then set it
SetAttribute(stage, path, key, value) ==
    [stage EXCEPT ![path].attrs = AttrSet(@, key, StrOf(value))]

\* the store calls of line 177-183 that change the stage: CreateAttribute, Set
AttrWrites(stage, path, key) == IF key \in DOMAIN stage[path].attrs THEN 1 ELSE 2

\* line 175-183: the loop over the items of one property
RECURSIVE SetAttributes(_, _, _)
SetAttributes(st, path, items) ==
    IF items = <<>> THEN st
    ELSE SetAttributes(
            [stage  |-> SetAttribute(st.stage, path, items[1][1], items[1][2]),
             writes |-> st.writes + AttrWrites(st.stage, path, items[1][1])],
            path, Tail(items))

(***************************************************************************)
(* The messages delivered to on_message.  The TimeStamp field is written   *)
(* as the number of minutes after 2024-01-01T00:00:00; the application     *)
(* never reads it.                                                         *)
(***************************************************************************)
Line1 == <<"L","i","n","e",":","1">>

Speed == <<"n","s","=","2",";","s","=","S","p","e","e","d">>

Temp == <<"n","s","=","2",";","s","=","D","e","v",":","T","e","m","p",".","C">>

Value(v) == JObj(<< <<"Value", v>> >>)

Record(writerField, writer, ts, payloadField, props) ==
    JsonText(JObj(<< <<writerField, writer>>, <<"TimeStamp", JNum(ts)>>,
                     <<payloadField, JObj(props)>> >>))

MsgSpeed42 ==
    Record("DataSetWriterName", JStr(Line1), 9, "Payload",
           << <<Speed, Value(JStr("42"))>> >>)

MsgSpeed43 ==
    Record("DataSetWriterName", JStr(Line1), 19, "Payload",
           << <<Speed, Value(JNum(43))>> >>)

MsgTwo ==
    Record("DataSetWriterName", JStr(Line1), 9, "Payload",
           << <<Temp, Value(JStr("7"))>>, <<Speed, Value(JStr("44"))>> >>)

MsgOld ==
    Record("DataSetWriterName", JStr(Line1), 0, "Payload",
           << <<Speed, Value(JStr("41"))>> >>)

\* the second property entry is a number, not a mapping
MsgPartial ==
    Record("DataSetWriterName", JStr(Line1), 9, "Payload",
           << <<Temp, Value(JStr("8"))>>, <<Speed, JNum(5)>> >>)

\* the other casing of the field names
MsgLower ==
    Record("dataSetWriterName", JStr(Line1), 9, "payload",
           << <<Speed, Value(JStr("42"))>> >>)

MsgBlankWriter == Record("DataSetWriterName", JStr(<<" ">>), 9, "Payload", <<>>)

MsgEmptyWriter ==
    Record("DataSetWriterName", JStr(<<>>), 9, "Payload",
           << <<Speed, Value(JStr("42"))>> >>)

MsgNullWriter ==
    Record("DataSetWriterName", JNull, 9, "Payload",
           << <<Speed, Value(JStr("42"))>> >>)

MsgNoWriter ==
    JsonText(JObj(<< <<"TimeStamp", JNum(9)>>,
                     <<"Payload", JObj(<< <<Speed, Value(JStr("42"))>> >>)>> >>))

MsgNoPayload ==
    JsonText(JObj(<< <<"DataSetWriterName", JStr(Line1)>>, <<"TimeStamp", JNum(9)>> >>))

MsgEmptyObject == JsonText(JObj(<<>>))

MsgList == JsonText(JArr(<<JNum(1)>>))

\* records with the field names the application reads, a writer name, and
\* property entries that are all mappings
ValidRecords == {MsgSpeed42, MsgSpeed43, MsgTwo, MsgOld}

Messages ==
    ValidRecords \cup
    {MsgPartial, MsgLower, MsgBlankWriter, MsgEmptyWriter,
     MsgNullWriter, MsgNoWriter, MsgNoPayload, MsgEmptyObject, MsgList,
     BadText, BadBytes}

(***************************************************************************)
(* OpcDeltaUsdWriter.write_to_opc_semantics                                *)
(***************************************************************************)
\* line 20: the default of MQTT_TOPIC, which main passes on as iot_topic
MQTT_TOPIC == <<"a","z","u","r","e","-","i","o","t","-","o","p","e","r","a","t",
                "i","o","n","s","/","d","a","t","a","/">>

\* line 152: the writer name with ':' and ' ' replaced
WriterName(s) == ReplaceChar(ReplaceChar(s, ":", "_"), " ", "_")

\* line 157: f"iot/opc_delta/{opc_topic}/{writer_name}/"
BaseOpcPath(opc_topic, writer_name) ==
    <<"i","o","t","/","o","p","c","_","d","e","l","t","a","/">>
        \o opc_topic \o <<"/">> \o writer_name \o <<"/">>

\* line 166: property_id.split(':')[-1].replace(';', '_').replace('.', '_')
PropertyName(property_id) ==
    ReplaceChar(ReplaceChar(AfterLast(property_id, ":"), ";", "_"), ".", "_")

\* line 168: f"{base_opc_path}/{semantic_label}", before it is sanitized
RawSemanticPath(base_opc_path, property_id) ==
    base_opc_path \o <<"/">> \o PropertyName(property_id)

\* the outcome of one call of sanitize_name: an exception or a returned value
SanCall(name) ==
    IF SanRaises(name)
    THEN [called |-> TRUE, raised |-> TRUE]
    ELSE [called |-> TRUE, raised |-> FALSE, value |-> sanitize_name(name)]

\* line 157-168 for every writer name and property id of Messages
RawPathsOfMessages ==
    {RawSemanticPath(BaseOpcPath(MQTT_TOPIC, WriterName(w)), p) :
        w \in {Line1}, p \in {Speed, Temp}}

\* sanitize_name of those paths, computed once
SanitizedPaths == [raw \in RawPathsOfMessages |-> SanCall(raw)]

\* line 169: sanitize_name(semantic_path)
Sanitized(raw) ==
    IF raw \in RawPathsOfMessages THEN SanitizedPaths[raw] ELSE SanCall(raw)

\* line 171-183 for one property: st is the stage so far and the store calls
\* made; path is the sanitized semantic path; data is the property's value
ApplyProperty(st, path, data) ==
    LET ensured == [stage  |-> ensure_prim_exists(st.stage, path, "Scope"),
                    writes |-> st.writes + EnsureWrites(st.stage, path)]
    IN  IF data.t # "obj"
        THEN \* property_data.items() on a value that is no dict
             [stage |-> ensured.stage, writes |-> ensured.writes,
              exc |-> "AttributeError"]
        ELSE LET done == SetAttributes(ensured, AbsPath(path), data.items)
             IN  [stage |-> done.stage, writes |-> done.writes, exc |-> ""]

\* line 164-183: the loop over the properties.  st is the stage so far, the
\* store calls made and the exception raised ("" when none); i counts the
\* properties; the ensure_prim_exists call of property failAt raises (a store
\* error), none does when failAt = 0.
RECURSIVE ApplyProperties(_, _, _, _, _)
ApplyProperties(st, base, props, i, failAt) ==
    IF props = <<>> \/ st.exc # "" THEN st
    ELSE IF Sanitized(RawSemanticPath(base, props[1][1])).raised
         THEN [st EXCEPT !.exc = "ValueError"]
    ELSE IF i = failAt THEN [st EXCEPT !.exc = "StoreError"]
    ELSE ApplyProperties(
            ApplyProperty(st, Sanitized(RawSemanticPath(base, props[1][1])).value,
                          props[1][2]),
            base, Tail(props), i + 1, failAt)

\* The outcome of one call: the stage after it, the number of store calls
\* that changed the stage, the number of live_process calls, and how it
\* ended: "returned" (line 145), "raised" (exception exc left the method) or
\* "applied" (line 186 was reached).
Returned(stage) ==
    [stage |-> stage, writes |-> 0, commits |-> 0, result |-> "returned", exc |-> ""]

Raised(stage, writes, exc) ==
    [stage |-> stage, writes |-> writes, commits |-> 0, result |-> "raised", exc |-> exc]

Applied(stage, writes) ==
    [stage |-> stage, writes |-> writes, commits |-> 1, result |-> "applied", exc |-> ""]

\* line 186 is reached unless the loop raised
Finish(st) ==
    IF st.exc # "" THEN Raised(st.stage, st.writes, st.exc)
    ELSE Applied(st.stage, st.writes)

\* line 152-154: the writer name, <<>> when the field is absent
ReadWriterName(payload) ==
    IF HasKey(payload, "DataSetWriterName")
    THEN WriterName(Item(payload, "DataSetWriterName").s)
    ELSE <<>>

write_to_opc_semantics(stage, opc_topic, raw, failAt) ==
    IF JsonLoadsRaises(raw) THEN Returned(stage)
    ELSE
      LET payload == raw.value IN
      IF ~Truthy(payload) THEN Raised(stage, 0, "Exception")
      \* payload.get exists on a dict only
      ELSE IF payload.t # "obj" THEN Raised(stage, 0, "AttributeError")
      \* .replace exists on a string only
      ELSE IF HasKey(payload, "DataSetWriterName")
                /\ Item(payload, "DataSetWriterName").t # "str"
           THEN Raised(stage, 0, "AttributeError")
      ELSE IF ReadWriterName(payload) = <<>> THEN Raised(stage, 0, "Exception")
      \* payload["Payload"] on a dict without the key, .items() on no dict
      ELSE IF ~HasKey(payload, "Payload") THEN Raised(stage, 0, "KeyError")
      ELSE IF Item(payload, "Payload").t # "obj"
           THEN Raised(stage, 0, "AttributeError")
      ELSE
        Finish(ApplyProperties(
                  [stage |-> stage, writes |-> 0, exc |-> ""],
                  BaseOpcPath(opc_topic, ReadWriterName(payload)),
                  Item(payload, "Payload").items, 1, failAt))

\* line 186: omni.client.live_process() sends every change the live layer
\* holds, whichever call of write_to_opc_semantics made it
live_process(layer) == layer

\* the exception classes that can reach on_message, all derived from Exception
ExceptionClasses ==
    {"Exception", "UnicodeDecodeError", "ValueError", "AttributeError",
     "KeyError", "StoreError"}

\* an except clause for the decoding errors only
CatchesValueErrors(exc) == exc \in {"ValueError", "UnicodeDecodeError"}

\* line 199: except Exception
Catches(exc) == exc \in ExceptionClasses

\* line 194-200: on_message.  escaped tells whether an exception left the
\* callback into the network loop.
Handled(out) ==
    [stage |-> out.stage, writes |-> out.writes, commits |-> out.commits,
     result |-> out.result, exc |-> out.exc,
     escaped |-> out.result = "raised" /\ ~Catches(out.exc)]

on_message(stage, iot_topic, raw, failAt) ==
    Handled(IF DecodeRaises(raw)
            THEN Raised(stage, 0, "UnicodeDecodeError")
            ELSE write_to_opc_semantics(stage, iot_topic, raw, failAt))

\* the ensure_prim_exists calls a message can lead to: one per property entry
EnsureCalls(raw) ==
    IF raw.utf8 /\ raw.json /\ raw.value.t = "obj" /\ HasKey(raw.value, "Payload")
       /\ Item(raw.value, "Payload").t = "obj"
    THEN Len(Item(raw.value, "Payload").items)
    ELSE 0

(***************************************************************************)
(* State                                                                   *)
(***************************************************************************)
\* messages handled in one run
MaxMessages == 3

\* clock ticks of ten minutes in one run
MaxTicks == 1

\* calls of connect_mqtt in one run (the first and its recursive calls)
MaxAttempts == 3

\* longest raw name given to sanitize_name
MaxNameLen == 4

\* reconnect attempts of the network loop in one run
MaxReconnects == 8

\* events delivered to the extension in one run
MaxEvents == 5

\* LiveRoller objects of the panel (the extension makes 38)
NumRollers == 2

\* largest conveyor speed reported, in revolutions per minute
MaxSpeed == 2

\* line 229: client.reconnect_delay_set(min_delay=1, max_delay=120)
ReconnectMinDelay == 1

ReconnectMaxDelay == 120

\* line 271: asyncio.sleep(30)
RetrySleep == 30

\* line 206: client.subscribe(topic) leaves qos at the default of the library
SubscribeQos == 0

CertPath == "client.crt"

KeyPath == "client.key"

NoMessage == [handled |-> FALSE]

NotCalled == [called |-> FALSE]

VARIABLES
    MQTT_CERT,     \* line 24
    MQTT_KEY,      \* line 25
    files,         \* the paths for which os.path.isfile is true
    pc,            \* "start", "retry", "running" or "stopped"
    attempts,      \* calls of connect_mqtt so far
    session,       \* "none", "plain" or "tls": what the current client was set up for
    log,           \* what connect_mqtt and its callbacks have printed
    connectCalled, \* client.connect was called (line 261)
    subscribed,    \* the broker has granted the running client's subscription
    net,           \* the network loop: "none", "connecting", "connected", "reconnecting"
    loops,         \* network loops started by client.loop_start
    delays,        \* seconds waited before each attempt since the last acknowledgement
    reconnect_delay, \* the loop's current backoff delay, 0 when unset
    reconnects,    \* reconnect attempts of the network loop
    drops,         \* transport failures of an acknowledged connection
    subIssued,     \* client.subscribe was called on this connection
    subQos,        \* the qos it asked for
    subFailed,     \* the broker refused the subscription
    escaped,       \* an exception left on_message and ended the network loop
    stage,         \* the live layer's prims
    commits,       \* calls of omni.client.live_process
    durable,       \* the stage as the last live_process committed it
    whole,         \* the stage the committed records alone would have made
    handled,       \* calls of on_message
    now,           \* minutes after 2024-01-01T00:00:00
    last,          \* the last call of on_message: its message and its outcome
    sanIn,         \* the argument of sanitize_name
    sanOut,        \* the outcome of sanitize_name(sanIn)
    sanOut2,       \* the outcome of sanitize_name on the value of sanOut
    rollers,       \* the LiveRoller objects of the panel and their prims
    rollerLast,    \* the last call made on a LiveRoller
    live,          \* the stage is in a live session
    selection,     \* the first selected prim path, "" when nothing is selected
    panel,         \* the fields of the extension object
    panelGhost,    \* panels made in this session, sessions joined so far
    panelLast,     \* the last handler of the extension that ran
    events         \* events delivered to the extension

netVars == <<net, loops, delays, reconnect_delay, reconnects, drops,
             subIssued, subQos, subFailed>>

connVars == <<MQTT_CERT, MQTT_KEY, files, pc, attempts, session, log,
              connectCalled, subscribed, netVars>>

pipeVars == <<escaped, stage, commits, durable, whole, handled, now, last>>

sanVars == <<sanIn, sanOut, sanOut2>>

rollerVars == <<rollers, rollerLast>>

panelVars == <<live, selection, panel, panelGhost, panelLast, events>>

vars == <<connVars, pipeVars, sanVars, rollerVars, panelVars>>

\* nothing delivered yet
PipeInit ==
    /\ escaped = FALSE
    /\ stage = EmptyStage
    /\ commits = 0
    /\ durable = EmptyStage
    /\ whole = EmptyStage
    /\ handled = 0
    /\ now = 10
    /\ last = NoMessage

\* no client has started its network loop
NetIdle ==
    /\ net = "none"
    /\ loops = 0
    /\ delays = <<>>
    /\ reconnect_delay = 0
    /\ reconnects = 0
    /\ drops = 0
    /\ subIssued = FALSE
    /\ subQos = 0
    /\ subFailed = FALSE

\* line 151-159: the fields on_startup sets before its call of _update_ui
NewPanel ==
    [iot_prim        |-> "None",
     listener        |-> FALSE,
     stage_event_sub |-> FALSE,
     window          |-> FALSE,
     property_stack  |-> FALSE,
     selected_prim   |-> "None"]

\* the extension is not enabled
NoPanel ==
    /\ live = FALSE
    /\ selection = ""
    /\ panel = NewPanel
    /\ panelGhost = [created |-> 0, joined |-> 0]
    /\ panelLast = [call |-> "none"]
    /\ events = 0

\* the panel has made no LiveRoller
NoRollers ==
    /\ rollers = <<>>
    /\ rollerLast = [call |-> "none"]

\* sanitize_name not called
SanIdle ==
    /\ sanIn = <<>>
    /\ sanOut = NotCalled
    /\ sanOut2 = NotCalled

(***************************************************************************)
(* connect_mqtt                                                            *)
(***************************************************************************)
\* line 240: if MQTT_CERT and MQTT_KEY
TlsRequested(cert, key) == cert # "" /\ key # ""

\* line 254: client.tls_set loads the certificate chain and raises when a
\* file is missing
TlsSetRaises(cert, key, fs) == TlsRequested(cert, key) /\ ~({cert, key} \subseteq fs)

\* line 248-256: what is printed about TLS
TlsLog(cert, key, fs) ==
    IF TlsRequested(cert, key)
    THEN (IF cert \in fs THEN {} ELSE {"Certificate file not found"})
         \cup (IF key \in fs THEN {} ELSE {"Key file not found"})
         \cup {"Using TLS certificate"}
    ELSE {"Using unencrypted connection"}

\* the session the client of this call is set up for when line 261 is reached
TlsSession(cert, key) == IF TlsRequested(cert, key) THEN "tls" ELSE "plain"

\* line 271: asyncio.sleep(seconds) only makes a coroutine; connect_mqtt is a
\* plain function and never awaits it, so no time passes before line 272
NotAwaited(seconds) == 0

\* a client whose loop is started before client.connect is called
LoopStartedFirst(outcome) == IF outcome \in {"ok", "raise"} THEN 1 ELSE 0

\* line 261-266: client.loop_start is reached only when client.connect
\* has returned 0; the network loops one call of connect_mqtt starts
LoopsStarted(outcome) == IF outcome = "ok" THEN 1 ELSE 0

\* One call of connect_mqtt (line 189-274).  outcome is what client.connect
\* does: "ok" (returns 0), "refused" (returns another code) or "raise".
ConnectAttempt(outcome) ==
    /\ pc \in {"start", "retry"}
    /\ attempts < MaxAttempts
    /\ attempts' = attempts + 1
    /\ log' = log \cup TlsLog(MQTT_CERT, MQTT_KEY, files)
    /\ subscribed' = FALSE
    /\ IF TlsSetRaises(MQTT_CERT, MQTT_KEY, files)
       THEN \* line 267-272: the except clause calls connect_mqtt again
            /\ session' = "none"
            /\ connectCalled' = connectCalled
            /\ pc' = "retry"
            /\ loops' = loops
            /\ net' = "none"
            /\ delays' = Append(delays, NotAwaited(RetrySleep))
       ELSE /\ session' = TlsSession(MQTT_CERT, MQTT_KEY)
            /\ connectCalled' = TRUE
            /\ pc' = CASE outcome = "ok"      -> "running"   \* line 266, 274
                       [] outcome = "refused" -> "stopped"   \* line 264
                       [] outcome = "raise"   -> "retry"     \* line 267-272
            /\ loops' = loops + LoopsStarted(outcome)
            /\ net' = IF outcome = "ok" THEN "connecting" ELSE "none"
            /\ delays' = IF outcome = "raise"
                         THEN Append(delays, NotAwaited(RetrySleep))
                         ELSE delays
    /\ UNCHANGED <<MQTT_CERT, MQTT_KEY, files>>
    /\ UNCHANGED <<reconnect_delay, reconnects, drops, subIssued, subQos, subFailed>>
    /\ UNCHANGED <<pipeVars, sanVars, rollerVars, panelVars>>

\* line 202-208: on_connect with the return code of the broker's
\* acknowledgement.  With 0 it subscribes; with another code it prints, and
\* the network loop, which has dropped the refused connection, reconnects.
OnConnect(rc) ==
    /\ pc = "running"
    /\ net = "connecting"
    /\ IF rc = 0
       THEN /\ net' = "connected"
            /\ subIssued' = TRUE
            /\ subQos' = SubscribeQos
            /\ reconnect_delay' = 0
            /\ delays' = <<>>
            /\ log' = log
       ELSE /\ net' = "reconnecting"
            /\ log' = log \cup {"Failed to connect, return code"}
            /\ UNCHANGED <<subIssued, subQos, reconnect_delay, delays>>
    /\ UNCHANGED <<MQTT_CERT, MQTT_KEY, files, pc, attempts, session,
                   connectCalled, subscribed, loops, reconnects, drops, subFailed>>
    /\ UNCHANGED <<pipeVars, sanVars, rollerVars, panelVars>>

\* line 210-211: on_subscribe prints the broker's answer to the subscription,
\* granted or refused, and does nothing else
OnSubscribe(granted) ==
    /\ pc = "running"
    /\ net = "connected"
    /\ subIssued
    /\ ~subscribed
    /\ ~subFailed
    /\ subscribed' = granted
    /\ subFailed' = ~granted
    /\ UNCHANGED <<MQTT_CERT, MQTT_KEY, files, pc, attempts, session, log,
                   connectCalled>>
    /\ UNCHANGED <<net, loops, delays, reconnect_delay, reconnects, drops,
                   subIssued, subQos>>
    /\ UNCHANGED <<pipeVars, sanVars, rollerVars, panelVars>>

\* a network loop that ends at the first failure of its connection
LoopEndsOnFailure == "none"

\* line 266: the thread client.loop_start starts runs the library's
\* loop_forever, which reconnects after every failure of the connection
LoopOnFailure == "reconnecting"

\* the connection of the running client breaks; the subscription of the
\* session is gone with it
TransportFailure ==
    /\ pc = "running"
    /\ net \in {"connecting", "connected"}
    /\ net' = LoopOnFailure
    /\ drops' = drops + (IF net = "connected" THEN 1 ELSE 0)
    /\ subscribed' = FALSE
    /\ subIssued' = FALSE
    /\ subFailed' = FALSE
    /\ UNCHANGED <<MQTT_CERT, MQTT_KEY, files, pc, attempts, session, log,
                   connectCalled>>
    /\ UNCHANGED <<loops, delays, reconnect_delay, reconnects, subQos>>
    /\ UNCHANGED <<pipeVars, sanVars, rollerVars, panelVars>>

\* the smaller of two numbers
Min(a, b) == IF a <= b THEN a ELSE b

\* line 229: the delay the network loop waits before a reconnect: the minimum
\* after an acknowledged connection, then twice the last one up to the maximum
NextDelay(d) == IF d = 0 THEN ReconnectMinDelay ELSE Min(2 * d, ReconnectMaxDelay)

\* The network loop waits and reconnects (line 229, 266).  outcome is "ok"
\* (the connection is made and waits for the broker's acknowledgement) or
\* "raise" (on_connect_fail prints, line 213-214, and the loop goes on).
Reconnect(outcome) ==
    /\ pc = "running"
    /\ net = "reconnecting"
    /\ reconnects < MaxReconnects
    /\ reconnects' = reconnects + 1
    /\ reconnect_delay' = NextDelay(reconnect_delay)
    /\ delays' = Append(delays, NextDelay(reconnect_delay))
    /\ IF outcome = "ok"
       THEN net' = "connecting" /\ log' = log
       ELSE net' = "reconnecting"
            /\ log' = log \cup {"Failed to connect to MQTT broker"}
    /\ UNCHANGED <<MQTT_CERT, MQTT_KEY, files, pc, attempts, session,
                   connectCalled, subscribed>>
    /\ UNCHANGED <<loops, drops, subIssued, subQos, subFailed>>
    /\ UNCHANGED <<pipeVars, sanVars, rollerVars, panelVars>>

ConnInit ==
    /\ MQTT_CERT \in {"", CertPath}
    /\ MQTT_KEY \in {"", KeyPath}
    /\ files \in SUBSET {CertPath, KeyPath}
    /\ pc = "start"
    /\ attempts = 0
    /\ session = "none"
    /\ log = {}
    /\ connectCalled = FALSE
    /\ subscribed = FALSE
    /\ NetIdle
    /\ PipeInit
    /\ SanIdle
    /\ NoRollers
    /\ NoPanel

ConnNext ==
    \/ \E outcome \in {"ok", "refused", "raise"} : ConnectAttempt(outcome)
    \/ \E rc \in {0, 5} : OnConnect(rc)
    \/ \E granted \in BOOLEAN : OnSubscribe(granted)
    \/ TransportFailure
    \/ \E outcome \in {"ok", "raise"} : Reconnect(outcome)

ConnSpec == ConnInit /\ [][ConnNext]_vars

(***************************************************************************)
(* The message pipeline of a connected, subscribed client                  *)
(***************************************************************************)
\* One call of on_message (line 194-200) by the network loop.
OnMessage(raw, failAt) ==
    /\ pc = "running"
    /\ subscribed
    /\ ~escaped
    /\ handled < MaxMessages
    /\ \E out \in {on_message(stage, MQTT_TOPIC, raw, failAt)} :
           /\ stage' = out.stage
           /\ commits' = commits + out.commits
           /\ durable' = IF out.commits = 1 THEN live_process(out.stage) ELSE durable
           /\ whole' = IF out.commits = 1
                       THEN write_to_opc_semantics(whole, MQTT_TOPIC, raw, 0).stage
                       ELSE whole
           /\ escaped' = out.escaped
           /\ last' = [handled  |-> TRUE,
                       msg      |-> raw,
                       at       |-> now,
                       failAt   |-> failAt,
                       result   |-> out.result,
                       exc      |-> out.exc,
                       writes   |-> out.writes,
                       commits  |-> out.commits,
                       again    |-> last.handled /\ last.msg = raw
                                      /\ last.result = "applied"
                                      /\ out.result = "applied",
                       afterBad |-> last.handled
                                      /\ (last.afterBad \/ last.result # "applied")]
    /\ handled' = handled + 1
    /\ UNCHANGED now
    /\ UNCHANGED <<connVars, sanVars, rollerVars, panelVars>>

\* ten minutes pass
Tick ==
    /\ now < 10 + 10 * MaxTicks
    /\ now' = now + 10
    /\ UNCHANGED <<escaped, stage, commits, durable, whole, handled, last>>
    /\ UNCHANGED <<connVars, sanVars, rollerVars, panelVars>>

\* connect_mqtt has returned the client of a first, unencrypted connect (the
\* defaults of line 24-25) and on_connect has subscribed
Init ==
    /\ MQTT_CERT = ""
    /\ MQTT_KEY = ""
    /\ files = {}
    /\ pc = "running"
    /\ attempts = 1
    /\ session = "plain"
    /\ log = {"Using unencrypted connection"}
    /\ connectCalled = TRUE
    /\ subscribed = TRUE
    /\ net = "connected"
    /\ loops = 1
    /\ delays = <<>>
    /\ reconnect_delay = 0
    /\ reconnects = 0
    /\ drops = 0
    /\ subIssued = TRUE
    /\ subQos = SubscribeQos
    /\ subFailed = FALSE
    /\ PipeInit
    /\ SanIdle
    /\ NoRollers
    /\ NoPanel

Next ==
    \/ \E raw \in Messages : \E failAt \in 0..EnsureCalls(raw) :
          OnMessage(raw, failAt)
    \/ Tick

Spec == Init /\ [][Next]_vars

(***************************************************************************)
(* sanitize_name as a program: one call, then a call on its own result     *)
(***************************************************************************)
\* one character of every class the expressions tell apart
NameChars == {"a", "B", "1", "/", "_", "-", " ", ":"}

RawNames == UNION {[1..n -> NameChars] : n \in 0..MaxNameLen}

SanInit ==
    /\ sanIn \in RawNames
    /\ sanOut = NotCalled
    /\ sanOut2 = NotCalled
    /\ MQTT_CERT = ""
    /\ MQTT_KEY = ""
    /\ files = {}
    /\ pc = "start"
    /\ attempts = 0
    /\ session = "none"
    /\ log = {}
    /\ connectCalled = FALSE
    /\ subscribed = FALSE
    /\ NetIdle
    /\ PipeInit
    /\ NoRollers
    /\ NoPanel

SanitizeOnce ==
    /\ ~sanOut.called
    /\ sanOut' = SanCall(sanIn)
    /\ UNCHANGED <<sanIn, sanOut2>>
    /\ UNCHANGED <<connVars, pipeVars, rollerVars, panelVars>>

SanitizeAgain ==
    /\ sanOut.called
    /\ ~sanOut.raised
    /\ ~sanOut2.called
    /\ sanOut2' = SanCall(sanOut.value)
    /\ UNCHANGED <<sanIn, sanOut>>
    /\ UNCHANGED <<connVars, pipeVars, rollerVars, panelVars>>

SanNext == SanitizeOnce \/ SanitizeAgain

SanSpec == SanInit /\ [][SanNext]_vars

(***************************************************************************)
(* LiveRoller (extension.py line 96-138).  A roller is its _op flag and    *)
(* what its prim holds of the spin op: prop tells whether the prim has the *)
(* property xformOp:rotateX:spin, order whether the op is in the prim's    *)
(* xform op order, keys the time samples of the property as <<time,        *)
(* value>> pairs.  The prim is valid, so _xform is set.                    *)
(***************************************************************************)
Rollers == 1..NumRollers

Speeds == 1..MaxSpeed

\* line 119: the frames per second of the stage
FramesPerSecond == 24

\* line 107: speed_dps = speed_rpm * 6
speed_dps(speed_rpm) == speed_rpm * 6

\* line 117-124: one turn from frame 0 to frame duration * frame rate
Keyframes(speed_rpm) ==
    {<<0, 0>>, <<(360 * FramesPerSecond) \div speed_dps(speed_rpm), 360>>}

\* line 97-102: LiveRoller(stage, path) on a prim with or without the spin op
NewRoller(hasSpin) ==
    [op    |-> hasSpin,
     prop  |-> hasSpin,
     order |-> hasSpin,
     keys  |-> IF hasSpin THEN Keyframes(1) ELSE {}]

\* line 104-127: resume.  raiseAt is the call that raises: "none", "op"
\* (AddRotateXOp or GetOp, line 111-114), "set" (the first op.Set, line 123)
\* or "interp" (op.SetInterpolation, line 125).
resume(roller, speed_rpm, raiseAt) ==
    IF roller.op \/ raiseAt = "op" THEN roller
    ELSE LET added == IF roller.prop THEN roller
                      ELSE [roller EXCEPT !.prop = TRUE, !.order = TRUE]
             keyed == [added EXCEPT !.keys = @ \cup Keyframes(speed_rpm)]
         IN  CASE raiseAt = "set"    -> added
               [] raiseAt = "interp" -> keyed
               [] raiseAt = "none"   -> [keyed EXCEPT !.op = TRUE]

\* line 129-138: pause
pause(roller) ==
    IF roller.op
    THEN [roller EXCEPT !.order = FALSE, !.prop = FALSE, !.keys = {}, !.op = FALSE]
    ELSE roller

\* a call of resume on one roller, as line 183-186 makes it: an exception
\* is caught by the caller
Resume(r, speed, raiseAt) ==
    /\ rollerLast.call # "none"
    /\ rollers' = [rollers EXCEPT ![r] = resume(@, speed, raiseAt)]
    /\ rollerLast' = [call |-> "resume", r |-> r, raised |-> raiseAt # "none"]
    /\ UNCHANGED <<connVars, pipeVars, sanVars, panelVars>>

\* a call of pause on one roller (line 190)
Pause(r) ==
    /\ rollerLast.call # "none"
    /\ rollers' = [rollers EXCEPT ![r] = pause(@)]
    /\ rollerLast' = [call |-> "pause", r |-> r, raised |-> FALSE]
    /\ UNCHANGED <<connVars, pipeVars, sanVars, panelVars>>

\* line 296-301 of _update_ui has made the rollers; nothing else has run
RollerInit ==
    /\ rollers \in [Rollers -> {NewRoller(h) : h \in BOOLEAN}]
    /\ rollerLast = [call |-> "init"]
    /\ MQTT_CERT = ""
    /\ MQTT_KEY = ""
    /\ files = {}
    /\ pc = "start"
    /\ attempts = 0
    /\ session = "none"
    /\ log = {}
    /\ connectCalled = FALSE
    /\ subscribed = FALSE
    /\ NetIdle
    /\ PipeInit
    /\ SanIdle
    /\ NoPanel

\* the speeds the panel reads from the conveyor's speed attribute
Velocities == 0..MaxSpeed

\* line 177-190: _on_velocity_changed.  With a speed above 0 every roller
\* is resumed, an exception of a resume is caught and printed; otherwise
\* every roller is paused.  raises gives for each roller the call of resume
\* that raises.
OnVelocityChanged(v, raises) ==
    /\ rollerLast.call # "none"
    /\ rollers' = [r \in Rollers |->
                      IF v > 0 THEN resume(rollers[r], v, raises[r])
                      ELSE pause(rollers[r])]
    /\ rollerLast' = [call   |-> "velocity",
                      v      |-> v,
                      raised |-> v > 0 /\ \E r \in Rollers : raises[r] # "none"]
    /\ UNCHANGED <<connVars, pipeVars, sanVars, panelVars>>

RollerNext ==
    \/ \E r \in Rollers : \E speed \in Speeds :
          \E raiseAt \in {"none", "op", "set", "interp"} : Resume(r, speed, raiseAt)
    \/ \E r \in Rollers : Pause(r)
    \/ \E v \in Velocities :
          \E raises \in [Rollers -> {"none", "op", "set", "interp"}] :
             OnVelocityChanged(v, raises)

RollerSpec == RollerInit /\ [][RollerNext]_vars

(***************************************************************************)
(* The panel (extension.py line 147-329).  A field of the extension that   *)
(* holds an object is TRUE, one that is None is FALSE; iot_prim and        *)
(* selected_prim hold a prim path or "None".  A path of a change notice is *)
(* the path of its prim and the name of its property, "" for a prim path.  *)
(***************************************************************************)
IotPath == "/iot"

\* prims below /iot that can be selected, and one elsewhere
IotChildren == {"/iot/a", "/iot/b"}

Selections == {"", IotPath, "/World/cube"} \cup IotChildren

PrimPathOf(prim) == [prim |-> prim, prop |-> ""]

PropertyPathOf(prim, name) == [prim |-> prim, prop |-> name]

ChangedPaths ==
    {PropertyPathOf("/iot/a", "Value"), PropertyPathOf("/iot/b", "Value"),
     PrimPathOf("/iot/a")}

\* Sdf.Path: IsPropertyPath, GetParentPath of a property path, HasPrefix
IsPropertyPath(path) == path.prop # ""

GetParentPath(path) == path.prim

HasPrefix(prim, prefix) == prim = prefix \/ (prefix = IotPath /\ prim \in IotChildren)

\* what a handler gives: the fields after it, whether _update_frame rebuilt
\* the panel, and the exception that left it ("" when none)
Ran(p, refreshed, exc) == [panel |-> p, refreshed |-> refreshed, exc |-> exc]

\* line 192-225: _update_frame rebuilds the property stack of the selected prim
update_frame(p) ==
    IF p.selected_prim = "None" THEN Ran(p, FALSE, "")
    ELSE IF ~p.property_stack THEN Ran(p, FALSE, "AttributeError")
    ELSE Ran(p, TRUE, "")

\* line 227-242: _on_selected_prim_changed with the first selected path
on_selected_prim_changed(p, sel) ==
    IF sel # "" /\ HasPrefix(sel, p.iot_prim) /\ sel # p.iot_prim
    THEN update_frame([p EXCEPT !.selected_prim = sel])
    ELSE Ran(p, FALSE, "")

\* line 245-248: _on_selection_changed
on_selection_changed(p, sel) ==
    IF p.iot_prim # "None" THEN on_selected_prim_changed(p, sel)
    ELSE Ran(p, FALSE, "")

\* the paths of a notice that line 264-266 collects
UpdatedObjects(p, paths) ==
    {path \in paths : IsPropertyPath(path) /\ GetParentPath(path) = p.selected_prim}

\* line 259-271: _on_objects_changed.  self._selected_prim.GetPath() is
\* evaluated for every property path, and None has no GetPath.
on_objects_changed(p, paths) ==
    IF p.selected_prim = "None" /\ \E path \in paths : IsPropertyPath(path)
    THEN Ran(p, FALSE, "AttributeError")
    ELSE IF UpdatedObjects(p, paths) # {} THEN update_frame(p)
    ELSE Ran(p, FALSE, "")

\* a panel made at every call
AlwaysNeedsPanel(iot_prim) == TRUE

\* line 287: if self._iot_prim is None
NeedsPanel(iot_prim) == iot_prim = "None"

\* line 296-301: a LiveRoller for every roller prim, its flag read from the prim
MakeRollers(old) ==
    IF old = <<>> THEN [r \in Rollers |-> NewRoller(FALSE)]
    ELSE [r \in Rollers |-> [old[r] EXCEPT !.op = old[r].prop]]

\* line 284-329: _update_ui.  made tells whether window, subscription and
\* listener were made by this call.
update_ui(p, inSession, sel) ==
    IF inSession
    THEN IF NeedsPanel(p.iot_prim)
         THEN [made |-> TRUE,
               ran  |-> on_selection_changed(
                           [p EXCEPT !.window = TRUE, !.iot_prim = IotPath,
                                     !.stage_event_sub = TRUE, !.listener = TRUE,
                                     !.property_stack = TRUE],
                           sel)]
         ELSE [made |-> FALSE, ran |-> Ran(p, FALSE, "")]
    ELSE [made |-> FALSE,
          ran  |-> Ran([p EXCEPT !.iot_prim = "None", !.listener = FALSE,
                                 !.stage_event_sub = FALSE,
                                 !.property_stack = FALSE, !.window = FALSE],
                       FALSE, "")]

\* what a call of _update_ui leaves, as an action
UpdateUi(call, inSession) ==
    \E out \in {update_ui(panel, inSession, selection)} :
        /\ panel' = out.ran.panel
        /\ rollers' = IF out.made THEN MakeRollers(rollers) ELSE rollers
        /\ rollerLast' = IF out.made THEN [call |-> "init"] ELSE rollerLast
        /\ panelGhost' =
              [created |-> IF ~inSession THEN 0
                           ELSE panelGhost.created + (IF out.made THEN 1 ELSE 0),
               joined  |-> panelGhost.joined
                              + (IF inSession /\ (~live \/ call = "startup")
                                 THEN 1 ELSE 0)]
        /\ panelLast' = [call |-> call, wasLive |-> live /\ call # "startup",
                         refreshed |-> out.ran.refreshed, exc |-> out.ran.exc]

\* on_startup has run and on_shutdown has not
PanelEnabled == panelLast.call \notin {"none", "init", "shutdown"}

\* line 147-167: on_startup ends with a call of _update_ui
OnStartup ==
    /\ panelLast.call = "init"
    /\ UpdateUi("startup", live)
    /\ UNCHANGED <<live, selection, events>>
    /\ UNCHANGED <<connVars, pipeVars, sanVars>>

\* line 273-282 (_on_layers_event): a LIVE_SESSION_STATE_CHANGED event of
\* this stage; inSession is what is_stage_in_live_session answers after it
OnLayersEvent(inSession) ==
    /\ PanelEnabled
    /\ events < MaxEvents
    /\ events' = events + 1
    /\ live' = inSession
    /\ UpdateUi("layers", inSession)
    /\ UNCHANGED selection
    /\ UNCHANGED <<connVars, pipeVars, sanVars>>

\* the selection of the stage changes; with the subscription of line 304
\* held, _on_stage_event (line 253-257) calls _on_selection_changed
OnSelectionChanged(sel) ==
    /\ PanelEnabled
    /\ events < MaxEvents
    /\ events' = events + 1
    /\ selection' = sel
    /\ \E ran \in {IF panel.stage_event_sub THEN on_selection_changed(panel, sel)
                   ELSE Ran(panel, FALSE, "")} :
          /\ panel' = ran.panel
          /\ panelLast' = [call |-> "selection", heard |-> panel.stage_event_sub,
                           refreshed |-> ran.refreshed, exc |-> ran.exc]
    /\ UNCHANGED <<live, panelGhost>>
    /\ UNCHANGED <<connVars, pipeVars, sanVars, rollerVars>>

\* an ObjectsChanged notice of the stage reaches the listener of line 309
OnObjectsChanged(paths) ==
    /\ PanelEnabled
    /\ panel.listener
    /\ events < MaxEvents
    /\ events' = events + 1
    /\ \E ran \in {on_objects_changed(panel, paths)} :
          /\ panel' = ran.panel
          /\ panelLast' = [call |-> "objects", paths |-> paths,
                           selected |-> panel.selected_prim,
                           refreshed |-> ran.refreshed, exc |-> ran.exc]
    /\ UNCHANGED <<live, selection, panelGhost>>
    /\ UNCHANGED <<connVars, pipeVars, sanVars, rollerVars>>

\* line 169-175: on_shutdown drops the panel and the subscription to the
\* session events; no handler runs after it
OnShutdown ==
    /\ PanelEnabled
    /\ panel' = [panel EXCEPT !.iot_prim = "None", !.listener = FALSE,
                              !.stage_event_sub = FALSE, !.window = FALSE]
    /\ panelLast' = [call |-> "shutdown"]
    /\ UNCHANGED <<live, selection, panelGhost, events>>
    /\ UNCHANGED <<connVars, pipeVars, sanVars, rollerVars>>

\* the extension is enabled with the stage in or out of a live session and
\* with or without a selected prim
PanelInit ==
    /\ live \in BOOLEAN
    /\ selection \in Selections
    /\ panel = NewPanel
    /\ panelGhost = [created |-> 0, joined |-> 0]
    /\ panelLast = [call |-> "init"]
    /\ events = 0
    /\ MQTT_CERT = ""
    /\ MQTT_KEY = ""
    /\ files = {}
    /\ pc = "start"
    /\ attempts = 0
    /\ session = "none"
    /\ log = {}
    /\ connectCalled = FALSE
    /\ subscribed = FALSE
    /\ NetIdle
    /\ PipeInit
    /\ SanIdle
    /\ NoRollers

PanelNext ==
    \/ OnStartup
    \/ \E inSession \in BOOLEAN : OnLayersEvent(inSession)
    \/ \E sel \in Selections : OnSelectionChanged(sel)
    \/ \E paths \in SUBSET ChangedPaths : OnObjectsChanged(paths)
    \/ OnShutdown

PanelSpec == PanelInit /\ [][PanelNext]_vars

(***************************************************************************)
(* What the claims speak of                                                *)
(***************************************************************************)
\* the prim path of one property of a record
PrimPath(writer, property_id) ==
    AbsPath(Sanitized(
        RawSemanticPath(BaseOpcPath(MQTT_TOPIC, WriterName(writer)), property_id)).value)

\* every attribute the properties name is in the stage with the text of its value
PropertiesHeld(writer, props) ==
    \A i \in 1..Len(props) :
        /\ PrimPath(writer, props[i][1]) \in DOMAIN stage
        /\ \A j \in 1..Len(props[i][2].items) :
              LET attrs == stage[PrimPath(writer, props[i][1])].attrs
                  key   == props[i][2].items[j][1]
              IN  key \in DOMAIN attrs /\ attrs[key] = StrOf(props[i][2].items[j][2])

\* the same for a record with the field names the application reads
RecordHeld(raw) ==
    PropertiesHeld(Item(raw.value, "DataSetWriterName").s,
                   Item(raw.value, "Payload").items)

\* the field of a decoded object under either of two names
HasEither(obj, a, b) == HasKey(obj, a) \/ HasKey(obj, b)

Either(obj, a, b) == IF HasKey(obj, a) THEN Item(obj, a) ELSE Item(obj, b)

\* a text of whitespace only
Blank(s) == \A i \in 1..Len(s) : s[i] \in Whitespace

\* the bytes decode to a JSON object
IsObject(raw) == raw.utf8 /\ raw.json /\ raw.value.t = "obj"

\* a decoded structure that validation is to refuse: empty, no writer name or
\* a blank one, or no payload container
Invalid(raw) ==
    /\ raw.utf8 /\ raw.json
    /\ \/ ~Truthy(raw.value)
       \/ /\ raw.value.t = "obj"
          /\ \/ ~HasEither(raw.value, "DataSetWriterName", "dataSetWriterName")
             \/ Either(raw.value, "DataSetWriterName", "dataSetWriterName").t # "str"
             \/ Blank(Either(raw.value, "DataSetWriterName", "dataSetWriterName").s)
             \/ ~HasEither(raw.value, "Payload", "payload")

\* a record whose timestamp is more than ten minutes before the time at
Stale(raw, at) ==
    /\ IsObject(raw)
    /\ HasKey(raw.value, "TimeStamp")
    /\ at - Item(raw.value, "TimeStamp").n > 10

(***************************************************************************)
(* C1  Applying a valid record twice leaves the stage as applying it once  *)
(* does, in every reachable stage: the same prims, the same attribute      *)
(* values, nothing appended.                                               *)
(***************************************************************************)
C1_ApplyTwiceIsApplyOnce ==
    \A raw \in ValidRecords :
        \E once \in {write_to_opc_semantics(stage, MQTT_TOPIC, raw, 0)} :
            /\ once.result = "applied"
            /\ write_to_opc_semantics(once.stage, MQTT_TOPIC, raw, 0).stage = once.stage

\* the same record was delivered and applied twice in a row
C1_Witness ==
    /\ last.handled
    /\ last.again
    /\ last.msg \in ValidRecords
    /\ RecordHeld(last.msg)

C3_OneCommitPerAppliedRecord ==
    last.handled =>
        /\ last.result = "applied" => last.commits = 1
        /\ (~IsObject(last.msg) \/ Invalid(last.msg) \/ Stale(last.msg, last.at))
              => last.commits = 0

(***************************************************************************)
(* C4  A message whose decoded structure is empty, whose writer name is    *)
(* absent or blank, or whose payload container is absent is refused with   *)
(* an error and leads to no store call and no commit.                      *)
(***************************************************************************)
C4_InvalidRejected ==
    (last.handled /\ Invalid(last.msg)) =>
        /\ last.result = "raised"
        /\ last.writes = 0
        /\ last.commits = 0

(***************************************************************************)
(* C5  A record whose timestamp is more than ten minutes before the time   *)
(* it is processed changes nothing in the stage.                           *)
(***************************************************************************)
C5_StaleIgnored ==
    (last.handled /\ Stale(last.msg, last.at)) => last.writes = 0

(***************************************************************************)
(* C6  A message with the field names dataSetWriterName / payload is       *)
(* applied like the same message with DataSetWriterName / Payload: its     *)
(* attributes are in the stage and live_process was called once.           *)
(***************************************************************************)
C6_EitherCasing ==
    (last.handled /\ last.msg = MsgLower) =>
        /\ last.result = "applied"
        /\ last.commits = 1
        /\ RecordHeld(MsgSpeed42)

(***************************************************************************)
(* C7  The message of writer "Line:1", timestamp 00:09 and property        *)
(* "ns=2;s=Speed" with Value "42", handled at 00:10, creates the prim      *)
(* iot/opc_delta/<topic>/line_1/speed, sets its Value to "42" and commits  *)
(* once.                                                                   *)
(***************************************************************************)
C7_ExpectedPath ==
    <<"/","i","o","t","/","o","p","c","_","d","e","l","t","a","/",
      "a","z","u","r","e","_","i","o","t","_","o","p","e","r","a","t","i","o","n","s",
      "/","d","a","t","a","/","l","i","n","e","_","1","/","s","p","e","e","d">>

C7_ExampleRecord ==
    (last.handled /\ last.msg = MsgLower /\ last.at = 10) =>
        /\ C7_ExpectedPath \in DOMAIN stage
        /\ "Value" \in DOMAIN stage[C7_ExpectedPath].attrs
        /\ stage[C7_ExpectedPath].attrs["Value"] = "42"
        /\ last.commits = 1

(***************************************************************************)
(* C8  Every name sanitize_name returns matches the path pattern: lower    *)
(* case, no empty segment, no segment that begins with a digit.            *)
(***************************************************************************)
C8_OutputMatchesPattern ==
    (sanOut.called /\ ~sanOut.raised) => MatchesPathPattern(sanOut.value)

(***************************************************************************)
(* C9  sanitize_name of a name it returned does not fail and returns the   *)
(* same name.                                                              *)
(***************************************************************************)
C9_SanitizeIdempotent ==
    sanOut2.called => (~sanOut2.raised /\ sanOut2.value = sanOut.value)

(***************************************************************************)
(* C10  A call of connect_mqtt reaches client.connect whatever the TLS     *)
(* material: with a path unset or a file missing the client is set up for  *)
(* an unencrypted session and a warning is printed; it is set up for TLS   *)
(* only when both paths are set and both files exist.                      *)
(***************************************************************************)
C10_TlsMaterialPresent ==
    /\ MQTT_CERT # "" /\ MQTT_CERT \in files
    /\ MQTT_KEY # "" /\ MQTT_KEY \in files

C10_NeverFailsForTls ==
    attempts > 0 =>
        /\ connectCalled
        /\ ~C10_TlsMaterialPresent
              => (session = "plain" /\ "Using unencrypted connection" \in log)
        /\ session = "tls" => C10_TlsMaterialPresent


\* C11: a failed connect attempt is never fatal: whenever connect_mqtt has
\* returned, after a raised exception or after a non-zero result code of
\* client.connect, the process has a client whose network loop is started.
C11_NeverLeftWithoutLoop == pc \in {"running", "stopped"} => loops >= 1

\* C12: once connect_mqtt has returned a running client the reconnect loop
\* never stops: the client stays running with its one network loop, a
\* connected client that loses its connection goes to reconnecting, from
\* there to connecting and from there to connected (or back to reconnecting),
\* any number of times.
C12_ReconnectLoopNeverStops ==
    [][/\ pc = "running" => (pc' = "running" /\ loops' = loops /\ net' # "none")
       /\ (net = "connected" /\ net' # net) => net' = "reconnecting"
       /\ (net = "reconnecting" /\ net' # net) => net' = "connecting"
       /\ (net = "connecting" /\ net' # net) => net' \in {"connected", "reconnecting"}
      ]_vars

\* the connection was lost twice and is acknowledged for the third time
C12_Witness == pc = "running" /\ net = "connected" /\ drops >= 2

\* C13: before every attempt after a failed one, a retry of the first connect
\* included, a delay is waited that starts at one second, does not decrease
\* from one attempt to the next and is at most 120 seconds.
C13_BackoffWaited ==
    \A i \in 1..Len(delays) :
        /\ delays[i] >= ReconnectMinDelay
        /\ delays[i] <= ReconnectMaxDelay
        /\ i = 1 => delays[i] = ReconnectMinDelay
        /\ i > 1 => delays[i] >= delays[i - 1]

\* C14: an acknowledged connection has its subscription issued before any
\* message is handled, and a refused subscription sends the client to
\* reconnecting: it never stays connected without a subscription.
C14_SubscribedOrReconnecting ==
    /\ net = "connected" => subIssued
    /\ subFailed => net = "reconnecting"

\* C15: at most one network loop is running, whatever number of connect
\* attempts failed before; on_message is called by that loop only, so at
\* most one call of write_to_opc_semantics is changing the stage.
C15_OneNetworkLoop == loops <= 1

\* the second call of connect_mqtt or a later one started the loop, and the
\* loop has reconnected
C15_Witness == attempts >= 2 /\ loops = 1 /\ reconnects >= 1 /\ net = "connected"

\* C16: every subscription asks for QoS 1 or higher.
C16_QosAtLeastOnce == subIssued => subQos >= 1


\* the node/attribute pairs a record names
NamedPairs(raw) ==
    IF ~(IsObject(raw) /\ HasKey(raw.value, "DataSetWriterName")
         /\ Item(raw.value, "DataSetWriterName").t = "str"
         /\ EnsureCalls(raw) > 0)
    THEN {}
    ELSE LET props == Item(raw.value, "Payload").items
         IN  UNION {{<<PrimPath(Item(raw.value, "DataSetWriterName").s, props[i][1]),
                       props[i][2].items[j][1]>> : j \in 1..Len(props[i][2].items)}
                    : i \in {n \in 1..Len(props) : props[n][2].t = "obj"}}

\* C17: no record is committed in part: what live_process has committed is
\* what the records applied in full have written, and holds no change of a
\* record whose processing failed after some of its properties were applied.
C17_NoPartialCommit == durable = whole

\* C18: applying a record is a pure upsert: every node stays, with its type
\* and its attributes, and every attribute the record does not name keeps
\* its value.
C18_PureUpsert ==
    [][\A p \in DOMAIN stage :
          /\ p \in DOMAIN stage'
          /\ stage'[p].type = stage[p].type
          /\ \A k \in DOMAIN stage[p].attrs :
                /\ k \in DOMAIN stage'[p].attrs
                /\ <<p, k>> \notin NamedPairs(last'.msg)
                      => stage'[p].attrs[k] = stage[p].attrs[k]
      ]_vars

\* a record that names the speed only was applied to a stage that holds the
\* temperature an earlier record gave
C18_Witness ==
    /\ last.handled /\ last.msg = MsgSpeed43 /\ last.result = "applied"
    /\ PrimPath(Line1, Temp) \in DOMAIN stage
    /\ "Value" \in DOMAIN stage[PrimPath(Line1, Temp)].attrs
    /\ stage[PrimPath(Line1, Temp)].attrs["Value"] = StrOf(JStr("7"))
    /\ RecordHeld(MsgSpeed43)


\* a name made of whitespace and path separators only
OnlySeparators(name) == \A i \in 1..Len(name) : name[i] \in Whitespace \cup {"/"}

\* C19: sanitize_name fails exactly when trimming whitespace and path
\* separators and dropping empty segments leaves no segment, that is for
\* the names made of whitespace and "/" only; for every other name it
\* returns a path that is not empty.
C19_FailsExactlyOnEmptyPath ==
    sanOut.called =>
        /\ sanOut.raised <=> OnlySeparators(sanIn)
        /\ ~sanOut.raised => sanOut.value # <<>>


\* C20: whatever calls of resume (with a positive speed, also one that
\* raises partway) and pause were made on a roller, its _op flag is true
\* exactly when its prim has the spin property, and after pause the spin op
\* is neither a property of the prim nor in its xform op order.
C20_FlagMatchesSpinOp ==
    /\ \A r \in DOMAIN rollers : rollers[r].op <=> rollers[r].prop
    /\ rollerLast.call = "pause" =>
          (~rollers[rollerLast.r].prop /\ ~rollers[rollerLast.r].order)


\* C21: after _on_velocity_changed(v), none of whose calls raised, the
\* rollers turn at the speed v: with v above 0 the spin keyframes of every
\* roller are those of v, also when the rollers were turning at another
\* speed before; with v at 0 or below no roller has a spin op.
C21_RollersFollowSpeed ==
    (rollerLast.call = "velocity" /\ ~rollerLast.raised) =>
        \A r \in Rollers :
            IF rollerLast.v > 0
            THEN rollers[r].prop /\ rollers[r].keys = Keyframes(rollerLast.v)
            ELSE ~rollers[r].prop /\ ~rollers[r].order


C23_RefreshIffSelectedChanged ==
    panelLast.call = "objects" =>
        /\ panelLast.exc = ""
        /\ panelLast.refreshed <=>
              \E path \in panelLast.paths :
                  IsPropertyPath(path) /\ GetParentPath(path) = panelLast.selected

=============================================================================
